---------------------------- MODULE Spec2Model ----------------------------
(***************************************************************************)
(* Model of the PredNet recurrent layer (src/ext/prednet/prednet.py).      *)
(*                                                                         *)
(* Conventions                                                             *)
(*  - Python lists are TLA+ sequences; At(s, l) reads the 0-based index l. *)
(*  - The output_mode string is a sequence of one-character strings, so    *)
(*    that slicing (output_mode[:-1], output_mode[-1]) and str(n) / int(c) *)
(*    are computed as Python computes them.                                *)
(*  - Real numbers are fixed-point integers in tenths (1.0 is 10); a       *)
(*    product is rounded towards minus infinity.                           *)
(*  - A tensor is [ok, rows, cols, blocks]: its spatial size and, along    *)
(*    the channel axis, a sequence of blocks [n, v] of n channels whose    *)
(*    elements all equal v.  Input frames are constant images and every    *)
(*    convolution kernel has the same centre tap for each pair of input    *)
(*    and output channel and a zero bias; for these inputs every tensor of *)
(*    the recurrence is constant per block and the model computes the      *)
(*    values exactly (up to the fixed-point rounding).  The batch axis is  *)
(*    carried only in shapes.                                              *)
(***************************************************************************)
EXTENDS Integers, Sequences, FiniteSets, TLC

VARIABLES
    pc,           \* "new" | "constructed" | "failed" | "serialized" | "reconstructed"
                  \* | "built" | "ready" | "raised"
    args,         \* the arguments the constructor was called with
    self,         \* the instance's attributes (NoInstance before / without one)
    backend,      \* the numeric backend: "tensorflow" | "theano"
    input_shape,  \* the 5-d shape build() received
    conv_layers,  \* the six families of built convolutions
    states,       \* the state list the driver threads through step
    output,       \* the output of the last step
    last,         \* what the last step computed (frame supplied, targets, ...)
    config,       \* the mapping get_config returned
    clone         \* the instance reconstructed from config

vars == <<pc, args, self, backend, input_shape, conv_layers, states, output, last, config, clone>>

---------------------------------------------------------------------------
(* Bounds of the model.                                                     *)

MaxLayers == 4

MaxSteps == 3

---------------------------------------------------------------------------
(* Generic helpers.                                                         *)

At(s, l) == s[l + 1]

Range(n) == 0 .. (n - 1)

Pow2(l) == 2 ^ l

Max(a, b) == IF a >= b THEN a ELSE b

Min(a, b) == IF a <= b THEN a ELSE b

RECURSIVE ProdSeq(_)
ProdSeq(s) == IF s = <<>> THEN 1 ELSE Head(s) * ProdSeq(Tail(s))

None == "None"

\* An optional integer: <<>> is None, <<n>> is n.
NoInt == <<>>

Some(n) == <<n>>

NoInstance == [kind |-> "none"]

---------------------------------------------------------------------------
(* Python strings, str(n) and int(c).                                       *)

Digits == <<"0", "1", "2", "3", "4", "5", "6", "7", "8", "9">>

RECURSIVE str(_)
str(n) == IF n < 10 THEN <<Digits[n + 1]>> ELSE str(n \div 10) \o <<Digits[(n % 10) + 1]>>

int(c) == (CHOOSE d \in 1 .. 10 : Digits[d] = c) - 1

S_prediction == <<"p", "r", "e", "d", "i", "c", "t", "i", "o", "n">>

S_error == <<"e", "r", "r", "o", "r">>

S_all == <<"a", "l", "l">>

S_R == <<"R">>

S_E == <<"E">>

S_A == <<"A">>

S_Ahat == <<"A", "h", "a", "t">>

---------------------------------------------------------------------------
(* keras.activations: a function object is written "<function name>";       *)
(* get(identifier) resolves a name (None is 'linear') and returns a         *)
(* function as it is, NameOf is the function's __name__, Apply its value on *)
(* a fixed-point x.                                                         *)

F_relu == "<function relu>"

F_linear == "<function linear>"

F_tanh == "<function tanh>"

F_hard_sigmoid == "<function hard_sigmoid>"

Callables == {F_relu, F_linear, F_tanh, F_hard_sigmoid}

activations_get(identifier) ==
    IF identifier = None THEN F_linear
    ELSE IF identifier \in Callables THEN identifier
    ELSE CASE identifier = "relu" -> F_relu
           [] identifier = "linear" -> F_linear
           [] identifier = "tanh" -> F_tanh
           [] identifier = "hard_sigmoid" -> F_hard_sigmoid

NameOf(fn) ==
    CASE fn = F_relu -> "relu"
      [] fn = F_linear -> "linear"
      [] fn = F_tanh -> "tanh"
      [] fn = F_hard_sigmoid -> "hard_sigmoid"

TanhTable == <<0, 1, 2, 3, 4, 5, 5, 6, 7, 7, 8, 8, 8, 9, 9, 9, 9, 9, 9>>

TanhAbs(x) == IF x + 1 <= Len(TanhTable) THEN TanhTable[x + 1] ELSE 10

Apply(fn, x) ==
    CASE fn = F_relu -> Max(x, 0)
      [] fn = F_linear -> x
      [] fn = F_tanh -> IF x >= 0 THEN TanhAbs(x) ELSE 0 - TanhAbs(0 - x)
      [] fn = F_hard_sigmoid -> Max(0, Min(10, ((2 * x) \div 10) + 5))

Mul(x, y) == (x * y) \div 10

---------------------------------------------------------------------------
(* PredNet.__init__                                                         *)

AssertionError(msg) == [kind |-> "AssertionError", msg |-> msg]

IsInstance(obj) == obj.kind = "PredNet"

R_filt_sizes_used(caller_R_filt_sizes) == <<3, 3, 3, 3>>

default_output_modes == {S_prediction, S_error, S_all}

layer_output_modes(nb_layers) ==
    { layer \o str(n) : layer \in {S_R, S_E, S_A, S_Ahat}, n \in Range(nb_layers) }

\* a parse that keeps only the first character of the unit type
output_layer_type_first_char(output_mode) == SubSeq(output_mode, 1, 1)

output_layer_type_of(output_mode) == SubSeq(output_mode, 1, Len(output_mode) - 1)

output_layer_num_of(output_mode) == int(output_mode[Len(output_mode)])

axes(data_format) ==
    IF data_format = "channels_first"
    THEN [channel_axis |-> -3, row_axis |-> -2, column_axis |-> -1]
    ELSE [channel_axis |-> -1, row_axis |-> -3, column_axis |-> -2]

init(a) ==
    LET nb_layers == Len(a.stack_sizes)
        R_filt_sizes == R_filt_sizes_used(a.R_filt_sizes)
        is_layer_mode == a.output_mode \in layer_output_modes(nb_layers)
    IN  IF Len(a.R_stack_sizes) # nb_layers
        THEN AssertionError("len(R_stack_sizes) must equal len(stack_sizes)")
        ELSE IF Len(a.A_filt_sizes) # nb_layers - 1
        THEN AssertionError("len(A_filt_sizes) must equal len(stack_sizes) - 1")
        ELSE IF Len(a.Ahat_filt_sizes) # nb_layers
        THEN AssertionError("len(Ahat_filt_sizes) must equal len(stack_sizes)")
        ELSE IF Len(R_filt_sizes) # nb_layers
        THEN AssertionError("len(R_filt_sizes) must equal len(stack_sizes)")
        ELSE IF a.output_mode \notin (default_output_modes \cup layer_output_modes(nb_layers))
        THEN AssertionError("Invalid output_mode")
        ELSE IF a.data_format \notin {"channels_last", "channels_first"}
        THEN AssertionError("data_format must be in {channels_last, channels_first}")
        ELSE [kind |-> "PredNet",
              stack_sizes |-> a.stack_sizes,
              nb_layers |-> nb_layers,
              R_stack_sizes |-> a.R_stack_sizes,
              A_filt_sizes |-> a.A_filt_sizes,
              Ahat_filt_sizes |-> a.Ahat_filt_sizes,
              R_filt_sizes |-> R_filt_sizes,
              pixel_max |-> a.pixel_max,
              error_activation |-> activations_get(a.error_activation),
              A_activation |-> activations_get(a.A_activation),
              LSTM_activation |-> activations_get(a.LSTM_activation),
              LSTM_inner_activation |-> activations_get(a.LSTM_inner_activation),
              output_mode |-> a.output_mode,
              output_layer_type |-> IF is_layer_mode THEN output_layer_type_of(a.output_mode) ELSE <<>>,
              output_layer_num |-> IF is_layer_mode THEN output_layer_num_of(a.output_mode) ELSE -1,
              extrap_start_time |-> a.extrap_start_time,
              data_format |-> a.data_format,
              channel_axis |-> axes(a.data_format).channel_axis,
              row_axis |-> axes(a.data_format).row_axis,
              column_axis |-> axes(a.data_format).column_axis,
              return_sequences |-> a.return_sequences]

---------------------------------------------------------------------------
(* PredNet.get_config: the mapping has the constructor's argument names,    *)
(* so that the framework's from_config can call the constructor with it.    *)

\* a serialization that writes stack_sizes in the place of R_stack_sizes
get_config_losing_R_stack_sizes(obj) ==
    [stack_sizes |-> obj.stack_sizes,
     R_stack_sizes |-> obj.stack_sizes,
     A_filt_sizes |-> obj.A_filt_sizes,
     Ahat_filt_sizes |-> obj.Ahat_filt_sizes,
     R_filt_sizes |-> obj.R_filt_sizes,
     pixel_max |-> obj.pixel_max,
     error_activation |-> NameOf(obj.error_activation),
     A_activation |-> NameOf(obj.A_activation),
     LSTM_activation |-> NameOf(obj.LSTM_activation),
     LSTM_inner_activation |-> NameOf(obj.LSTM_inner_activation),
     data_format |-> obj.data_format,
     extrap_start_time |-> obj.extrap_start_time,
     output_mode |-> obj.output_mode,
     return_sequences |-> obj.return_sequences]

get_config(obj) ==
    [stack_sizes |-> obj.stack_sizes,
     R_stack_sizes |-> obj.R_stack_sizes,
     A_filt_sizes |-> obj.A_filt_sizes,
     Ahat_filt_sizes |-> obj.Ahat_filt_sizes,
     R_filt_sizes |-> obj.R_filt_sizes,
     pixel_max |-> obj.pixel_max,
     error_activation |-> NameOf(obj.error_activation),
     A_activation |-> NameOf(obj.A_activation),
     LSTM_activation |-> NameOf(obj.LSTM_activation),
     LSTM_inner_activation |-> NameOf(obj.LSTM_inner_activation),
     data_format |-> obj.data_format,
     extrap_start_time |-> obj.extrap_start_time,
     output_mode |-> obj.output_mode,
     return_sequences |-> obj.return_sequences]

---------------------------------------------------------------------------
(* PredNet.compute_output_shape.  A shape is a sequence of numbers; a       *)
(* number is <<numerator, denominator>> because '/' is the true division   *)
(* under Python 3 and the floor division under Python 2.                    *)

Num(n) == <<n, 1>>

RECURSIVE Reduce(_, _)
Reduce(a, b) == IF b > 1 /\ a % 2 = 0 /\ b % 2 = 0 THEN Reduce(a \div 2, b \div 2) ELSE <<a, b>>

PyDiv(a, b, python) == IF python = 2 THEN Num(a \div b) ELSE Reduce(a, b)

Nums(s) == [i \in 1 .. Len(s) |-> Num(s[i])]

AxisAt(shape, axis) == shape[Len(shape) + 1 + axis]

compute_output_shape(obj, in_shape, python) ==
    LET frame == SubSeq(in_shape, 3, Len(in_shape))
        stack_mult == IF obj.output_layer_type = S_E THEN 2 ELSE 1
        stack == IF obj.output_layer_type = S_R THEN obj.R_stack_sizes ELSE obj.stack_sizes
        out_stack_size == Num(stack_mult * At(stack, obj.output_layer_num))
        out_nb_row == PyDiv(AxisAt(in_shape, obj.row_axis), Pow2(obj.output_layer_num), python)
        out_nb_col == PyDiv(AxisAt(in_shape, obj.column_axis), Pow2(obj.output_layer_num), python)
        out_shape ==
            IF obj.output_mode = S_prediction THEN Nums(frame)
            ELSE IF obj.output_mode = S_error THEN <<Num(obj.nb_layers)>>
            ELSE IF obj.output_mode = S_all THEN <<Num(ProdSeq(frame) + obj.nb_layers)>>
            ELSE IF obj.data_format = "channels_first"
                 THEN <<out_stack_size, out_nb_row, out_nb_col>>
                 ELSE <<out_nb_row, out_nb_col, out_stack_size>>
    IN  IF obj.return_sequences
        THEN <<Num(in_shape[1]), Num(in_shape[2])>> \o out_shape
        ELSE <<Num(in_shape[1])>> \o out_shape

---------------------------------------------------------------------------
(* Tensors and the backend operations step uses.                            *)

Bad == [ok |-> FALSE, rows |-> 0, cols |-> 0, blocks |-> <<>>]

Tensor(rows, cols, blocks) == [ok |-> TRUE, rows |-> rows, cols |-> cols, blocks |-> blocks]

Block(n, v) == [n |-> n, v |-> v]

Zeros(rows, cols, n) == Tensor(rows, cols, <<Block(n, 0)>>)

RECURSIVE CountChannels(_)
CountChannels(bs) == IF bs = <<>> THEN 0 ELSE Head(bs).n + CountChannels(Tail(bs))

Channels(x) == CountChannels(x.blocks)

\* the sum of one spatial position's elements over the channels
RECURSIVE SumBlocks(_)
SumBlocks(bs) == IF bs = <<>> THEN 0 ELSE Head(bs).n * Head(bs).v + SumBlocks(Tail(bs))

WeightedSum(x) == SumBlocks(x.blocks)

Value(x) == x.blocks[1].v

SameSize(x, y) == x.rows = y.rows /\ x.cols = y.cols

RECURSIVE K_concatenate(_)
K_concatenate(xs) ==
    IF Len(xs) = 1 THEN xs[1]
    ELSE LET rest == K_concatenate(Tail(xs))
         IN  IF xs[1].ok /\ rest.ok /\ SameSize(xs[1], rest)
             THEN Tensor(xs[1].rows, xs[1].cols, xs[1].blocks \o rest.blocks)
             ELSE Bad

\* An elementwise operation of two one-block tensors.  Operands whose channel
\* counts differ are combined only when one of them has a single channel and
\* the backend broadcasts it (TensorFlow does; Theano's tensors of unknown
\* shape are not broadcastable).
Broadcasts(x, y, bk) ==
    \/ Channels(x) = Channels(y)
    \/ bk = "tensorflow" /\ (Channels(x) = 1 \/ Channels(y) = 1)

Sub(x, y, bk) ==
    IF x.ok /\ y.ok /\ SameSize(x, y) /\ Broadcasts(x, y, bk)
    THEN Tensor(x.rows, x.cols, <<Block(Max(Channels(x), Channels(y)), Value(x) - Value(y))>>)
    ELSE Bad

Add(x, y, bk) ==
    IF x.ok /\ y.ok /\ SameSize(x, y) /\ Broadcasts(x, y, bk)
    THEN Tensor(x.rows, x.cols, <<Block(Max(Channels(x), Channels(y)), Value(x) + Value(y))>>)
    ELSE Bad

Hadamard(x, y, bk) ==
    IF x.ok /\ y.ok /\ SameSize(x, y) /\ Broadcasts(x, y, bk)
    THEN Tensor(x.rows, x.cols, <<Block(Max(Channels(x), Channels(y)), Mul(Value(x), Value(y)))>>)
    ELSE Bad

RECURSIVE ApplyBlocks(_, _)
ApplyBlocks(fn, bs) ==
    IF bs = <<>> THEN <<>>
    ELSE <<Block(Head(bs).n, Apply(fn, Head(bs).v))>> \o ApplyBlocks(fn, Tail(bs))

Activate(fn, x) == IF x.ok THEN Tensor(x.rows, x.cols, ApplyBlocks(fn, x.blocks)) ELSE Bad

RECURSIVE MinBlocks(_, _)
MinBlocks(bs, m) ==
    IF bs = <<>> THEN <<>>
    ELSE <<Block(Head(bs).n, Min(Head(bs).v, m))>> \o MinBlocks(Tail(bs), m)

K_minimum(x, m) == IF x.ok THEN Tensor(x.rows, x.cols, MinBlocks(x.blocks, m)) ELSE Bad

UpSampling2D(x) == IF x.ok THEN Tensor(2 * x.rows, 2 * x.cols, x.blocks) ELSE Bad

MaxPooling2D(x) == IF x.ok THEN Tensor(x.rows \div 2, x.cols \div 2, x.blocks) ELSE Bad

\* mean over all non-batch elements (K.mean(K.batch_flatten(e)))
K_mean(x) == WeightedSum(x) \div Channels(x)

\* A built Conv2D: filters output channels, kernel size, activation, the input
\* channel count its kernel was built for, and the kernel's centre tap w.
Conv2D(filters, kernel, activation, in_ch, w) ==
    [filters |-> filters, kernel |-> kernel, activation |-> activations_get(activation),
     in_ch |-> in_ch, w |-> w]

Conv_call(layer, x) ==
    IF x.ok /\ Channels(x) = layer.in_ch
    THEN Tensor(x.rows, x.cols, <<Block(layer.filters, Apply(layer.activation, layer.w * WeightedSum(x)))>>)
    ELSE Bad

TensorShape(x, data_format) ==
    IF data_format = "channels_first"
    THEN <<Channels(x), x.rows, x.cols>>
    ELSE <<x.rows, x.cols, Channels(x)>>

RECURSIVE BlockValues(_)
BlockValues(bs) == IF bs = <<>> THEN <<>> ELSE <<Head(bs).v>> \o BlockValues(Tail(bs))

Values(x) == BlockValues(x.blocks)

---------------------------------------------------------------------------
(* PredNet.build: the convolutions and the channel counts they are built    *)
(* for.  w is the centre tap given to every kernel.                         *)

gate_nb_channels(obj, l) ==
    At(obj.stack_sizes, l) * 2 + At(obj.R_stack_sizes, l)
        + (IF l < obj.nb_layers - 1 THEN At(obj.R_stack_sizes, l + 1) ELSE 0)

ahat_nb_channels(obj, l) == At(obj.R_stack_sizes, l)

a_nb_channels(obj, l) == 2 * At(obj.R_stack_sizes, l)

build(obj, w) ==
    LET gate(fam) ==
            [k \in 1 .. obj.nb_layers |->
                Conv2D(At(obj.R_stack_sizes, k - 1), At(obj.R_filt_sizes, k - 1),
                       IF fam = "c" THEN obj.LSTM_activation ELSE obj.LSTM_inner_activation,
                       gate_nb_channels(obj, k - 1), w)]
    IN  [i |-> gate("i"),
         f |-> gate("f"),
         c |-> gate("c"),
         o |-> gate("o"),
         ahat |-> [k \in 1 .. obj.nb_layers |->
                     Conv2D(At(obj.stack_sizes, k - 1), At(obj.Ahat_filt_sizes, k - 1),
                            IF k - 1 = 0 THEN "relu" ELSE obj.A_activation,
                            ahat_nb_channels(obj, k - 1), w)],
         a |-> [k \in 1 .. obj.nb_layers - 1 |->
                     Conv2D(At(obj.stack_sizes, k), At(obj.A_filt_sizes, k - 1),
                            obj.A_activation, a_nb_channels(obj, k - 1), w)]]

NoLayers == [i |-> <<>>, f |-> <<>>, c |-> <<>>, o |-> <<>>, ahat |-> <<>>, a |-> <<>>]

---------------------------------------------------------------------------
(* PredNet.get_initial_state                                                *)

\* an initial state whose error tensors are not doubled
initial_stack_size_undoubled(obj, u, l) ==
    IF u \in {"r", "c"} THEN At(obj.R_stack_sizes, l) ELSE At(obj.stack_sizes, l)

initial_stack_size(obj, u, l) ==
    IF u \in {"r", "c"} THEN At(obj.R_stack_sizes, l)
    ELSE IF u = "e" THEN 2 * At(obj.stack_sizes, l)
    ELSE At(obj.stack_sizes, l)

initial_tensors(obj, in_shape, u, nlayers) ==
    [k \in 1 .. nlayers |->
        Zeros(AxisAt(in_shape, obj.row_axis) \div Pow2(k - 1),
              AxisAt(in_shape, obj.column_axis) \div Pow2(k - 1),
              initial_stack_size(obj, u, k - 1))]

get_initial_state(obj, in_shape) ==
    initial_tensors(obj, in_shape, "r", obj.nb_layers)
        \o initial_tensors(obj, in_shape, "c", obj.nb_layers)
        \o initial_tensors(obj, in_shape, "e", obj.nb_layers)
        \o (IF obj.extrap_start_time # NoInt
            THEN initial_tensors(obj, in_shape, "ahat", 1) \o <<0>>
            ELSE <<>>)

---------------------------------------------------------------------------
(* PredNet.step                                                             *)

\* a switch that starts extrapolating one step late
extrap_input_late(obj, a, st) ==
    IF obj.extrap_start_time # NoInt
    THEN IF st[Len(st)] > obj.extrap_start_time[1] THEN st[Len(st) - 1] ELSE a
    ELSE a

\* a = K.switch(t >= self.t_extrap, states[-2], a)
extrap_input(obj, a, st) ==
    IF obj.extrap_start_time # NoInt
    THEN IF st[Len(st)] >= obj.extrap_start_time[1] THEN st[Len(st) - 1] ELSE a
    ELSE a

\* a top-down pass whose gate input upsamples the representation the layer
\* above had before this step
R_layer_stale(obj, convs, st, bk, l, above) ==
    LET nb == obj.nb_layers
        r_tm1 == SubSeq(st, 1, nb)
        c_tm1 == SubSeq(st, nb + 1, 2 * nb)
        e_tm1 == SubSeq(st, 2 * nb + 1, 3 * nb)
        inputs == K_concatenate(<<At(r_tm1, l), At(e_tm1, l)>>
                                \o (IF l < nb - 1 THEN <<UpSampling2D(At(r_tm1, l + 1))>> ELSE <<>>))
        i == Conv_call(At(convs.i, l), inputs)
        f == Conv_call(At(convs.f, l), inputs)
        o == Conv_call(At(convs.o, l), inputs)
        c_new == Add(Hadamard(f, At(c_tm1, l), bk),
                     Hadamard(i, Conv_call(At(convs.c, l), inputs), bk), bk)
        r_new == Hadamard(o, Activate(obj.LSTM_activation, c_new), bk)
    IN  [inputs |-> inputs, c |-> c_new, r |-> r_new]

\* One layer of the top-down pass: the gate input, the new cell and the new
\* representation of layer l; above holds the layers already updated
\* (l+1 .. nb-1, in ascending order).
R_layer(obj, convs, st, bk, l, above) ==
    LET nb == obj.nb_layers
        r_tm1 == SubSeq(st, 1, nb)
        c_tm1 == SubSeq(st, nb + 1, 2 * nb)
        e_tm1 == SubSeq(st, 2 * nb + 1, 3 * nb)
        r_up == UpSampling2D(above[1].r)
        inputs == K_concatenate(<<At(r_tm1, l), At(e_tm1, l)>>
                                \o (IF l < nb - 1 THEN <<r_up>> ELSE <<>>))
        i == Conv_call(At(convs.i, l), inputs)
        f == Conv_call(At(convs.f, l), inputs)
        o == Conv_call(At(convs.o, l), inputs)
        c_new == Add(Hadamard(f, At(c_tm1, l), bk),
                     Hadamard(i, Conv_call(At(convs.c, l), inputs), bk), bk)
        r_new == Hadamard(o, Activate(obj.LSTM_activation, c_new), bk)
    IN  [inputs |-> inputs, c |-> c_new, r |-> r_new]

\* for l in reversed(range(nb_layers)): ... c.insert(0, _c); r.insert(0, _r)
RECURSIVE update_R_from(_, _, _, _, _, _)
update_R_from(obj, convs, st, bk, l, above) ==
    IF l < 0 THEN above
    ELSE update_R_from(obj, convs, st, bk, l - 1,
                       <<R_layer(obj, convs, st, bk, l, above)>> \o above)

update_R(obj, convs, st, bk) == update_R_from(obj, convs, st, bk, obj.nb_layers - 1, <<>>)

\* a bottom-up pass that leaves the prediction of layer 0 unclipped
E_layer_unclipped(obj, convs, a, R, bk, l) ==
    LET raw == Conv_call(At(convs.ahat, l), At(R, l).r)
        e_up == Activate(obj.error_activation, Sub(raw, a, bk))
        e_down == Activate(obj.error_activation, Sub(a, raw, bk))
    IN  [a |-> a, raw |-> raw, ahat |-> raw, e |-> K_concatenate(<<e_up, e_down>>)]

\* a bottom-up pass that concatenates the two halves of the error in the
\* opposite order
E_layer_swapped(obj, convs, a, R, bk, l) ==
    LET raw == Conv_call(At(convs.ahat, l), At(R, l).r)
        ahat == IF l = 0 THEN K_minimum(raw, obj.pixel_max) ELSE raw
        e_up == Activate(obj.error_activation, Sub(ahat, a, bk))
        e_down == Activate(obj.error_activation, Sub(a, ahat, bk))
    IN  [a |-> a, raw |-> raw, ahat |-> ahat, e |-> K_concatenate(<<e_down, e_up>>)]

\* One layer of the bottom-up pass: the target a, the prediction ahat (raw is
\* the convolution's output before the clip of layer 0) and the error e.
E_layer(obj, convs, a, R, bk, l) ==
    LET raw == Conv_call(At(convs.ahat, l), At(R, l).r)
        ahat == IF l = 0 THEN K_minimum(raw, obj.pixel_max) ELSE raw
        e_up == Activate(obj.error_activation, Sub(ahat, a, bk))
        e_down == Activate(obj.error_activation, Sub(a, ahat, bk))
    IN  [a |-> a, raw |-> raw, ahat |-> ahat, e |-> K_concatenate(<<e_up, e_down>>)]

\* a = self.pool.call(self.conv_layers['a'][l].call(e[l]))
next_target(convs, l, e) == MaxPooling2D(Conv_call(At(convs.a, l), e))

\* for l in range(nb_layers): ... e.append(...)
RECURSIVE update_E_from(_, _, _, _, _, _, _)
update_E_from(obj, convs, a, R, bk, l, below) ==
    IF l > obj.nb_layers - 1 THEN below
    ELSE update_E_from(obj, convs,
                       IF l < obj.nb_layers - 1
                       THEN next_target(convs, l, E_layer(obj, convs, a, R, bk, l).e)
                       ELSE a,
                       R, bk, l + 1,
                       Append(below, E_layer(obj, convs, a, R, bk, l)))

update_E(obj, convs, a0, R, bk) == update_E_from(obj, convs, a0, R, bk, 0, <<>>)

\* An output: its non-batch shape and the values of its parts.
Out(shape, vals) == [shape |-> shape, vals |-> vals]

TensorOut(x, data_format) == Out(TensorShape(x, data_format), Values(x))

RECURSIVE layer_errors(_)
layer_errors(E) == IF E = <<>> THEN <<>> ELSE <<K_mean(Head(E).e)>> \o layer_errors(Tail(E))

select_output(obj, R, E) ==
    LET nb == obj.nb_layers
        frame_prediction == At(E, 0).ahat
        all_error == layer_errors(E)
        l == obj.output_layer_num
    IN  IF obj.output_layer_type = S_A THEN TensorOut(At(E, l).a, obj.data_format)
        ELSE IF obj.output_layer_type = S_Ahat THEN TensorOut(At(E, l).ahat, obj.data_format)
        ELSE IF obj.output_layer_type = S_R THEN TensorOut(At(R, l).r, obj.data_format)
        ELSE IF obj.output_layer_type = S_E THEN TensorOut(At(E, l).e, obj.data_format)
        ELSE IF obj.output_mode = S_prediction THEN TensorOut(frame_prediction, obj.data_format)
        ELSE IF obj.output_mode = S_error THEN Out(<<nb>>, all_error)
        ELSE Out(<<Channels(frame_prediction) * frame_prediction.rows * frame_prediction.cols + nb>>,
                 Values(frame_prediction) \o all_error)

RECURSIVE Field_r(_)
Field_r(R) == IF R = <<>> THEN <<>> ELSE <<Head(R).r>> \o Field_r(Tail(R))

RECURSIVE Field_c(_)
Field_c(R) == IF R = <<>> THEN <<>> ELSE <<Head(R).c>> \o Field_c(Tail(R))

RECURSIVE Field_e(_)
Field_e(E) == IF E = <<>> THEN <<>> ELSE <<Head(E).e>> \o Field_e(Tail(E))

\* states = r + c + e (+ [frame_prediction, t + 1])
next_states(obj, st, R, E) ==
    Field_r(R) \o Field_c(R) \o Field_e(E)
        \o (IF obj.extrap_start_time # NoInt THEN <<At(E, 0).ahat, st[Len(st)] + 1>> ELSE <<>>)

RECURSIVE AllOk(_, _)
AllOk(R, E) ==
    IF R = <<>> THEN TRUE
    ELSE Head(R).r.ok /\ Head(R).c.ok /\ Head(E).e.ok /\ Head(E).a.ok /\ AllOk(Tail(R), Tail(E))

\* The result of one call: ok is FALSE when an operation of the call raises
\* (operands of different sizes); R and E are the per-layer records of the two
\* passes, indexed by layer.
step_with(obj, st, R, E) ==
    IF AllOk(R, E)
    THEN [ok |-> TRUE, output |-> select_output(obj, R, E),
          states |-> next_states(obj, st, R, E), R |-> R, E |-> E]
    ELSE [ok |-> FALSE, output |-> Out(<<>>, <<>>), states |-> st, R |-> R, E |-> E]

step(obj, convs, a, st, bk) ==
    LET R == update_R(obj, convs, st, bk)
    IN  step_with(obj, st, R, update_E(obj, convs, extrap_input(obj, a, st), R, bk))

---------------------------------------------------------------------------
(* The inputs the operations are exercised with.                            *)

MkArgs(ss, rs, af, ahf, rf, pm, acts, om, est, df, rseq) ==
    [stack_sizes |-> ss, R_stack_sizes |-> rs, A_filt_sizes |-> af,
     Ahat_filt_sizes |-> ahf, R_filt_sizes |-> rf, pixel_max |-> pm,
     error_activation |-> acts[1], A_activation |-> acts[2],
     LSTM_activation |-> acts[3], LSTM_inner_activation |-> acts[4],
     output_mode |-> om, extrap_start_time |-> est, data_format |-> df,
     return_sequences |-> rseq]

DefaultActs == <<"relu", "relu", "tanh", "hard_sigmoid">>

Filt(n) == [k \in 1 .. n |-> 3]

Ramp(n) == [k \in 1 .. n |-> k]

Flat(n) == [k \in 1 .. n |-> 2]

RampTop(n) == [k \in 1 .. n |-> IF k = n THEN 1 ELSE k]

\* Arguments with the documented list lengths for n layers.
ValidArgs(n, ss, rs, pm, acts, om, est, df, rseq) ==
    MkArgs(ss, rs, Filt(n - 1), Filt(n), Filt(n), pm, acts, om, est, df, rseq)

UnitTypes == {S_R, S_E, S_A, S_Ahat}

ValidModes(n) == default_output_modes \cup { u \o str(l) : u \in UnitTypes, l \in Range(n) }

\* Strings tried as output_mode: the valid ones and near misses.
ModeStrings ==
    default_output_modes
        \cup { u \o str(l) : u \in UnitTypes \cup {<<"X">>, <<"a", "h", "a", "t">>}, l \in 0 .. MaxLayers }
        \cup { <<>>, S_R, S_Ahat, <<"R", "0", "0">>, <<"0", "R">>, <<"e", "r", "r">> }

LengthArgs ==
    { MkArgs(ss, Ramp(nr), Filt(na), Filt(nh), Filt(nf), 10, DefaultActs, S_error, NoInt,
             "channels_first", FALSE) :
        ss \in { Ramp(n) : n \in 1 .. MaxLayers } \cup { Flat(n) : n \in 1 .. MaxLayers },
        nr \in 1 .. MaxLayers, na \in 0 .. MaxLayers, nh \in 1 .. MaxLayers, nf \in 1 .. MaxLayers }

ModeArgs ==
    { ValidArgs(n, Ramp(n), Ramp(n), 10, DefaultActs, om, NoInt, df, FALSE) :
        n \in 1 .. MaxLayers, om \in ModeStrings,
        df \in {"channels_first", "channels_last", "channels_middle"} }

RoundTripArgs ==
    UNION { { ValidArgs(n, ss, rs, pm, <<ea, "relu", "tanh", "hard_sigmoid">>, om, est, df, rseq) :
                ss \in {Ramp(n), Flat(n)}, rs \in {Ramp(n), Flat(n)},
                pm \in {5, 10}, ea \in {"relu", "tanh", None, F_relu},
                om \in {S_prediction, S_all, S_R \o str(0), S_E \o str(2)},
                est \in {NoInt, Some(1)}, df \in {"channels_first", "channels_last"},
                rseq \in BOOLEAN } : n \in 1 .. MaxLayers }

ConfigArgs == LengthArgs \cup ModeArgs \cup RoundTripArgs

\* Input shapes (batch, time, channels, rows, cols) laid out for data_format.
InputShape(df, batch, time, ch, rows, cols) ==
    IF df = "channels_first" THEN <<batch, time, ch, rows, cols>>
    ELSE <<batch, time, rows, cols, ch>>

Frame(in_shape, obj, v) ==
    Tensor(AxisAt(in_shape, obj.row_axis), AxisAt(in_shape, obj.column_axis),
           <<Block(AxisAt(in_shape, obj.channel_axis), v)>>)

---------------------------------------------------------------------------
(* The state machine.                                                       *)

NoArgs == [kind |-> "none"]

NoConfig == [kind |-> "none"]

NoOutput == Out(<<>>, <<>>)

NoStep == [n |-> 0, frame |-> Bad, prev |-> <<>>, R |-> <<>>, E |-> <<>>]

Init ==
    /\ pc = "new"
    /\ args = NoArgs
    /\ self = NoInstance
    /\ backend = "tensorflow"
    /\ input_shape = <<>>
    /\ conv_layers = NoLayers
    /\ states = <<>>
    /\ output = NoOutput
    /\ last = NoStep
    /\ config = NoConfig
    /\ clone = NoInstance

\* PredNet(**a): an instance, or the AssertionError that prevented it.
Construct(Args) ==
    /\ pc = "new"
    /\ \E a \in Args :
        /\ args' = a
        /\ self' = init(a)
        /\ pc' = IF IsInstance(init(a)) THEN "constructed" ELSE "failed"
    /\ UNCHANGED <<backend, input_shape, conv_layers, states, output, last, config, clone>>

GetConfig ==
    /\ pc = "constructed"
    /\ config' = get_config(self)
    /\ pc' = "serialized"
    /\ UNCHANGED <<args, self, backend, input_shape, conv_layers, states, output, last, clone>>

\* The framework's from_config: PredNet(**config).
FromConfig ==
    /\ pc = "serialized"
    /\ clone' = init(config)
    /\ pc' = "reconstructed"
    /\ UNCHANGED <<args, self, backend, input_shape, conv_layers, states, output, last, config>>

Build(Shapes, Taps, Backends) ==
    /\ pc = "constructed"
    /\ \E shp \in Shapes, w \in Taps, b \in Backends :
        /\ input_shape' = InputShape(self.data_format, shp[1], shp[2], shp[3], shp[4], shp[5])
        /\ conv_layers' = build(self, w)
        /\ backend' = b
    /\ pc' = "built"
    /\ UNCHANGED <<args, self, states, output, last, config, clone>>

GetInitialState ==
    /\ pc = "built"
    /\ states' = get_initial_state(self, input_shape)
    /\ pc' = "ready"
    /\ UNCHANGED <<args, self, backend, input_shape, conv_layers, output, last, config, clone>>

\* One call of step by the sequence driver, with the next frame of the input.
Step(Pixels) ==
    /\ pc = "ready"
    /\ last.n < MaxSteps
    /\ \E v \in Pixels :
        \E frame \in {Frame(input_shape, self, v)} :
        \E res \in {step(self, conv_layers, frame, states, backend)} :
            IF res.ok
            THEN /\ states' = res.states
                 /\ output' = res.output
                 /\ last' = [n |-> last.n + 1, frame |-> frame, prev |-> states,
                             R |-> res.R, E |-> res.E]
                 /\ pc' = "ready"
            ELSE /\ pc' = "raised"
                 /\ UNCHANGED <<states, output, last>>
    /\ UNCHANGED <<args, self, backend, input_shape, conv_layers, config, clone>>

---------------------------------------------------------------------------
(* SpecConfig: construction and the configuration round trip.               *)

NextConfig ==
    \/ Construct(ConfigArgs)
    \/ GetConfig
    \/ FromConfig

SpecConfig == Init /\ [][NextConfig]_vars

---------------------------------------------------------------------------
(* SpecShape: build, initial state and steps over the stack sizes, output   *)
(* modes, layouts and input shapes.                                         *)

ShapeArgs ==
    UNION { { ValidArgs(n, ss, rs, 10, DefaultActs, om, est, df, FALSE) :
                ss \in {Ramp(n), Flat(n), RampTop(n)}, rs \in {Ramp(n), Flat(n), RampTop(n)},
                om \in ValidModes(n), est \in {NoInt, Some(0)},
                df \in {"channels_first", "channels_last"} } : n \in 1 .. MaxLayers }

ShapeInputs == { <<2, 3, ch, rows, 16>> : ch \in {1, 2}, rows \in {8, 12} }

NextShape ==
    \/ Construct(ShapeArgs)
    \/ Build(ShapeInputs, {1}, {"tensorflow", "theano"})
    \/ GetInitialState
    \/ Step({10})

SpecShape == Init /\ [][NextShape]_vars

---------------------------------------------------------------------------
(* Spec: steps over the activations, pixel_max, the extrapolation start,    *)
(* the kernels and the frames' pixel values.                                *)

StepArgs ==
    UNION { { ValidArgs(n, ss, rs, pm, <<ea, aa, "tanh", "hard_sigmoid">>, om, est,
                        "channels_first", FALSE) :
                ss \in {Ramp(n), Flat(n)}, rs \in {Ramp(n), Flat(n)},
                pm \in {-5, 5, 10}, ea \in {"relu", "linear"}, aa \in {"relu", "hard_sigmoid"},
                om \in {S_prediction, S_all, S_Ahat \o str(0)},
                est \in {NoInt, Some(0), Some(2)} } : n \in 1 .. MaxLayers }

StepInputs == { <<2, 3, ch, 8, 8>> : ch \in {1, 2} }

Next ==
    \/ Construct(StepArgs)
    \/ Build(StepInputs, {0, 2}, {"tensorflow"})
    \/ GetInitialState
    \/ Step({0, 20})

Spec == Init /\ [][Next]_vars

---------------------------------------------------------------------------
(* Claims about construction (checked under SpecConfig).                    *)

Called == pc # "new"

LengthsValid(a) ==
    /\ Len(a.R_stack_sizes) = Len(a.stack_sizes)
    /\ Len(a.A_filt_sizes) = Len(a.stack_sizes) - 1
    /\ Len(a.Ahat_filt_sizes) = Len(a.stack_sizes)
    /\ Len(a.R_filt_sizes) = Len(a.stack_sizes)

IsLayerSelector(om, n) == \E u \in UnitTypes, l \in Range(n) : om = u \o str(l)

ModeValid(a) ==
    a.output_mode \in default_output_modes \/ IsLayerSelector(a.output_mode, Len(a.stack_sizes))

\* C1: construction fails whenever the caller's lists violate a length
\* invariant (len(R_stack_sizes), len(Ahat_filt_sizes), len(R_filt_sizes) equal
\* to len(stack_sizes), len(A_filt_sizes) one less); no instance is produced.
C1_LengthMismatchRejected == (Called /\ ~LengthsValid(args)) => ~IsInstance(self)

\* C2: construction succeeds for every configuration whose lists satisfy the
\* length invariants for its own layer count L >= 1 and whose output_mode and
\* layout are valid (in particular for the 2-layer configuration (1,2), (1,2),
\* (3,), (3,3), (3,3) with output_mode 'error' or 'R1').
C2_ValidConfigAccepted ==
    (Called /\ LengthsValid(args) /\ ModeValid(args)
        /\ args.data_format \in {"channels_first", "channels_last"})
    => IsInstance(self)

\* C7: construction fails for every output_mode that is neither 'prediction',
\* 'error', 'all' nor <Type><layer> with Type in {R, Ahat, A, E} and layer in
\* 0..L-1; for an accepted single-layer selector the stored unit type and layer
\* number are the Type and layer written in the string.
C7_OutputModeValidated ==
    Called =>
        /\ ~ModeValid(args) => ~IsInstance(self)
        /\ IsInstance(self) =>
            \A u \in UnitTypes, l \in Range(self.nb_layers) :
                args.output_mode = u \o str(l) =>
                    self.output_layer_type = u /\ self.output_layer_num = l

C7_Witness ==
    /\ pc = "constructed"
    /\ args.output_mode = S_Ahat \o str(2)
    /\ self.output_layer_type = S_Ahat
    /\ self.output_layer_num = 2

\* Shapes the shape interface is probed with.
ProbeShapes == { <<2, 3, d1, d2, d3>> : d1 \in {1, 3, 8, 12}, d2 \in {1, 3, 8, 12}, d3 \in {1, 3, 8, 12} }

Pythons == {2, 3}

\* C10: the instance constructed from get_config's mapping returns, for every
\* input shape, the output shape the original returns, and serializing it
\* again yields the same mapping.
C10_ConfigRoundTrip ==
    pc = "reconstructed" =>
        /\ IsInstance(clone)
        /\ \A shp \in ProbeShapes, py \in Pythons :
            compute_output_shape(clone, shp, py) = compute_output_shape(self, shp, py)
        /\ get_config(clone) = config

C10_Witness ==
    /\ pc = "reconstructed"
    /\ IsInstance(clone)
    /\ args.error_activation = None
    /\ clone.error_activation = F_linear
    /\ config.error_activation = "linear"
    /\ args.output_mode = S_R \o str(0)
    /\ At(args.R_stack_sizes, 0) # At(args.stack_sizes, 0)
    /\ args.data_format = "channels_first"
    /\ ~args.return_sequences
    /\ compute_output_shape(clone, <<2, 3, 8, 8, 12>>, 3)
         = <<Num(2), Num(At(args.R_stack_sizes, 0)), Num(8), Num(12)>>

---------------------------------------------------------------------------
(* Claims about shapes (checked under SpecShape).                           *)

Stepped == pc = "ready" /\ last.n >= 1

\* the dimensions after the batch (and time) dimension
Trailing(shape, obj) == SubSeq(shape, IF obj.return_sequences THEN 3 ELSE 2, Len(shape))

InputRows == AxisAt(input_shape, self.row_axis)

InputCols == AxisAt(input_shape, self.column_axis)

\* C3: for every valid configuration, output_mode, layout and input shape,
\* the non-batch dimensions compute_output_shape returns equal those of the
\* output tensor step produces for one frame of that input shape.
C3_ShapeMatchesStep ==
    Stepped =>
        \A py \in Pythons :
            Trailing(compute_output_shape(self, input_shape, py), self) = Nums(output.shape)

\* C5: initially and after any number of steps the state list is
\* [R_0.., C_0.., E_0..] (then the previous prediction and the counter when
\* extrapolating); R_l and C_l have R_stack_sizes[l] channels, E_l has
\* 2*stack_sizes[l], all at the frame's size divided by 2^l (the integer
\* division get_initial_state uses); initially all tensors are zero and the
\* counter is 0.
HasShape(x, n, l) ==
    /\ x.ok
    /\ Channels(x) = n
    /\ x.rows = InputRows \div Pow2(l)
    /\ x.cols = InputCols \div Pow2(l)

IsZero(x) == \A k \in 1 .. Len(x.blocks) : x.blocks[k].v = 0

C5_StateLayout ==
    pc = "ready" =>
        LET nb == self.nb_layers
            extrap == self.extrap_start_time # NoInt
        IN  /\ Len(states) = 3 * nb + (IF extrap THEN 2 ELSE 0)
            /\ \A l \in Range(nb) :
                /\ HasShape(states[l + 1], At(self.R_stack_sizes, l), l)
                /\ HasShape(states[nb + l + 1], At(self.R_stack_sizes, l), l)
                /\ HasShape(states[2 * nb + l + 1], 2 * At(self.stack_sizes, l), l)
                /\ last.n = 0 =>
                    IsZero(states[l + 1]) /\ IsZero(states[nb + l + 1]) /\ IsZero(states[2 * nb + l + 1])
            /\ extrap =>
                /\ HasShape(states[3 * nb + 1], At(self.stack_sizes, 0), 0)
                /\ states[3 * nb + 2] = last.n
                /\ last.n = 0 => IsZero(states[3 * nb + 1])
            /\ last.n >= 1 =>
                /\ \A l \in Range(nb) :
                    /\ states[l + 1] = At(last.R, l).r
                    /\ states[nb + l + 1] = At(last.R, l).c
                    /\ states[2 * nb + l + 1] = At(last.E, l).e
                /\ extrap => states[3 * nb + 1] = At(last.E, 0).ahat

C5_Witness ==
    /\ pc = "ready"
    /\ last.n = 2
    /\ self.extrap_start_time # NoInt
    /\ self.data_format = "channels_last"
    /\ At(self.R_stack_sizes, 3) # At(self.stack_sizes, 3)
    /\ Channels(states[4]) = At(self.R_stack_sizes, 3)
    /\ states[4].rows = 1 /\ states[4].cols = 2

\* C6: for every layer l < L-1 the A convolution of layer l is built for
\* 2*stack_sizes[l] input channels, the channel count of the error tensor step
\* passes to it, and has stack_sizes[l+1] output channels, also when
\* R_stack_sizes[l] differs from stack_sizes[l].
C6_AConvChannels ==
    pc \in {"built", "ready", "raised"} =>
        \A l \in Range(self.nb_layers - 1) :
            /\ At(conv_layers.a, l).in_ch = 2 * At(self.stack_sizes, l)
            /\ At(conv_layers.a, l).filters = At(self.stack_sizes, l + 1)

---------------------------------------------------------------------------
(* Claims about the values of a step (checked under Spec).                  *)

Extrapolating == self.extrap_start_time # NoInt

PrevPrediction == last.prev[Len(last.prev) - 1]

\* C4: with extrap_start_time = T the counter in the state before the k-th
\* step is k; at a step t >= T the layer-0 target is the frame-0 prediction in
\* the state step t-1 returned (the zero initial one at t = 0), never the
\* supplied frame; at a step t < T it is the supplied frame.
C4_ExtrapolationSwitch ==
    (pc = "ready" /\ Extrapolating) =>
        /\ states[Len(states)] = last.n
        /\ last.n >= 1 =>
            /\ last.prev[Len(last.prev)] = last.n - 1
            /\ At(last.E, 0).a =
                 IF last.n - 1 >= self.extrap_start_time[1] THEN PrevPrediction ELSE last.frame
            /\ (last.n = 1 /\ 0 >= self.extrap_start_time[1]) => IsZero(At(last.E, 0).a)

C4_Witness ==
    /\ Stepped
    /\ self.extrap_start_time = Some(2)
    /\ last.n = 3
    /\ At(last.E, 0).a = PrevPrediction
    /\ Channels(PrevPrediction) = Channels(last.frame)
    /\ Value(PrevPrediction) # Value(last.frame)
    /\ Value(PrevPrediction) # 0

\* C8: every element of the frame-0 prediction (output in 'prediction' mode,
\* flattened into 'all' mode, returned for 'Ahat0', stored in the state as the
\* previous prediction) is <= pixel_max, also when the layer-0 Ahat
\* convolution's output exceeds it; E_0 is computed from the clipped
\* prediction.
AllAtMost(vals, m) == \A k \in 1 .. Len(vals) : vals[k] <= m

C8_PredictionClipped ==
    Stepped =>
        LET ahat == At(last.E, 0).ahat
            a == At(last.E, 0).a
        IN  /\ AllAtMost(Values(ahat), self.pixel_max)
            /\ self.output_mode \in {S_prediction, S_Ahat \o str(0)} =>
                   output.vals = Values(ahat)
            /\ self.output_mode = S_all =>
                   SubSeq(output.vals, 1, Len(ahat.blocks)) = Values(ahat)
            /\ Extrapolating => states[Len(states) - 1] = ahat
            /\ At(last.E, 0).e =
                 K_concatenate(<<Activate(self.error_activation, Sub(ahat, a, backend)),
                                 Activate(self.error_activation, Sub(a, ahat, backend))>>)

C8_Witness ==
    /\ Stepped
    /\ self.pixel_max = 10
    /\ Value(At(last.E, 0).raw) > 10
    /\ Value(At(last.E, 0).ahat) = 10
    /\ self.output_mode = S_all
    /\ Extrapolating

ZeroWeights == At(conv_layers.i, 0).w = 0

FirstStep == Stepped /\ last.n = 1

\* the error of layer l when its prediction (stack_sizes[l] channels) is zero
ErrorOfZeroPrediction(a, l) ==
    LET zero == Zeros(a.rows, a.cols, At(self.stack_sizes, l))
    IN  K_concatenate(<<Activate(self.error_activation, Sub(zero, a, backend)),
                        Activate(self.error_activation, Sub(a, zero, backend))>>)

ZeroStateProperty ==
    \A l \in Range(self.nb_layers) :
        /\ IsZero(At(last.E, l).ahat)
        /\ At(last.E, l).a = (IF l = 0 THEN last.frame
                              ELSE next_target(conv_layers, l - 1, At(last.E, l - 1).e))
        /\ states[2 * self.nb_layers + l + 1] = ErrorOfZeroPrediction(At(last.E, l).a, l)

\* C9 as stated: at t=0 with zero parameters and the zero initial state, for
\* every layer and every activation choice E_l = errorActivation(0 - a_l)
\* concat errorActivation(a_l - 0), every prediction Ahat_l being zero.
C9_ZeroStateAnyActivation == (FirstStep /\ ZeroWeights) => ZeroStateProperty

\* C9 as amended: the same, for configurations whose A_activation maps 0 to 0,
\* whose pixel_max is not negative and which do not extrapolate at t=0
\* (extrap_start_time is None or greater than 0).
C9_ZeroState ==
    (FirstStep /\ ZeroWeights /\ Apply(self.A_activation, 0) = 0 /\ self.pixel_max >= 0
        /\ (Extrapolating => self.extrap_start_time[1] > 0))
    => ZeroStateProperty

C9_Witness ==
    /\ FirstStep
    /\ ZeroWeights
    /\ self.A_activation = F_relu
    /\ self.error_activation = F_relu
    /\ self.pixel_max = 5
    /\ self.extrap_start_time = Some(2)
    /\ Value(last.frame) = 20
    /\ Values(states[2 * self.nb_layers + 1]) = <<0, 20>>
    /\ Channels(At(last.E, 3).a) = At(self.stack_sizes, 3)

\* C11: within one step the gate input of layer l is the concatenation of
\* R_l and E_l of the previous state and, for l < L-1, the upsampling of the
\* R_{l+1} computed in this same step (not the previous one); layer l's
\* prediction is the Ahat convolution of the R_l computed in this step, layer
\* l+1's target is the pooled A convolution of the E_l computed in this step,
\* and the returned lists r, c, e are indexed by layer in ascending order.
C11_UpdateOrder ==
    Stepped =>
        LET nb == self.nb_layers
            st == last.prev
        IN  \A l \in Range(nb) :
                /\ At(last.R, l).inputs =
                     K_concatenate(<<st[l + 1], st[2 * nb + l + 1]>>
                                   \o (IF l < nb - 1
                                       THEN <<UpSampling2D(At(last.R, l + 1).r)>>
                                       ELSE <<>>))
                /\ At(last.E, l).raw = Conv_call(At(conv_layers.ahat, l), At(last.R, l).r)
                /\ l < nb - 1 =>
                       At(last.E, l + 1).a = next_target(conv_layers, l, At(last.E, l).e)
                /\ l = 0 => At(last.E, l).a = extrap_input(self, last.frame, st)
                /\ states[l + 1] = At(last.R, l).r
                /\ states[nb + l + 1] = At(last.R, l).c
                /\ states[2 * nb + l + 1] = At(last.E, l).e

C11_Witness ==
    /\ Stepped
    /\ last.n = 2
    /\ Value(last.prev[2]) = 0
    /\ Value(At(last.R, 1).r) > 0
    /\ At(last.R, 0).inputs.blocks[4].v = Value(At(last.R, 1).r)
    /\ Value(At(last.R, 0).r) # Value(last.prev[1])
    /\ Value(At(last.E, 0).raw) > 0

===========================================================================
